---------------------------- MODULE Spec2Model ----------------------------
(***************************************************************************)
(* Model of crates/aptos/src/move_tool/fmt.rs: the `aptos move fmt`        *)
(* command.  A parsed FmtCommand is checked by the clap argument group     *)
(* "input", FmtCommand::execute resolves the movefmt executable, builds    *)
(* the child's argument vector, runs the child with Command::output and    *)
(* turns the child's exit status, stdout and stderr into a                 *)
(* CliTypedResult<String>.                                                 *)
(*                                                                         *)
(* Text is modelled as Rust holds it: a String, a PathBuf and a Vec<u8>    *)
(* are sequences of bytes (0..255); a String is a byte sequence that is    *)
(* valid UTF-8.  The literals below are the source's string literals,      *)
(* byte by byte, each followed by its text.                                *)
(***************************************************************************)
EXTENDS Naturals, Integers, Sequences, FiniteSets, TLC

VARIABLES
    req,      \* the FmtCommand value (fields of lines 33-66)
    pc,       \* position in the program: parse, rejected, resolve, build, spawn, wait, interpret,
              \* done (execute has returned), panicked (execute unwound without returning)
    exe,      \* result of get_movefmt_path() (line 81)
    cmd,      \* the std::process::Command under construction: its argument vector (line 82)
    spawned,  \* number of child processes created by this call
    reaped,   \* number of created children whose exit status the call's wait collected
    child,    \* how the child ended and what it wrote: the facts, whether or not the call learns them;
              \* discarded: the system dropped its exit status before the call's wait
    out,      \* what cmd.output() returned to execute, when it returned an Output (line 122)
    result,   \* the CliTypedResult<String> returned by execute
    diag      \* what each eprint! of the call put on the process's stderr (line 127)

vars == <<req, pc, exe, cmd, spawned, reaped, child, out, result, diag>>

---------------------------------------------------------------------------
(* String literals of the source. *)

LitEmit == <<45, 45, 101, 109, 105, 116, 61>>  \* "--emit="
LitOverwrite == <<111, 118, 101, 114, 119, 114, 105, 116, 101>>  \* "overwrite"
LitNewFile == <<110, 101, 119, 95, 102, 105, 108, 101>>  \* "new_file"
LitStdout == <<115, 116, 100, 111, 117, 116>>  \* "stdout"
LitDiff == <<100, 105, 102, 102>>  \* "diff"
LitConfigPath == <<45, 45, 99, 111, 110, 102, 105, 103, 45, 112, 97, 116, 104, 61>>  \* "--config-path="
LitV == <<45, 118>>  \* "-v"
LitQ == <<45, 113>>  \* "-q"
LitConfig == <<45, 45, 99, 111, 110, 102, 105, 103, 61>>  \* "--config="
LitFilePath == <<45, 45, 102, 105, 108, 101, 45, 112, 97, 116, 104, 61>>  \* "--file-path="
LitDirPath == <<45, 45, 100, 105, 114, 45, 112, 97, 116, 104, 61>>  \* "--dir-path="
LitDotSlash == <<46, 47>>  \* "./"
LitOk == <<111, 107>>  \* "ok"
LitEq == <<61>>  \* "="
LitComma == <<44>>  \* ","
LitNotUtf8 == <<111, 117, 116, 112, 117, 116, 32, 103, 101, 110, 101, 114, 97, 116, 101, 100, 32, 98, 121, 32, 102, 111, 114, 109, 97, 116, 116, 101, 114, 32, 105, 115, 32, 110, 111, 116, 32, 118, 97, 108, 105, 100, 32, 117, 116, 102, 56, 58, 32>>  \* "output generated by formatter is not valid utf8: "
LitExited == <<102, 111, 114, 109, 97, 116, 116, 101, 114, 32, 101, 120, 105, 116, 101, 100, 32, 119, 105, 116, 104, 32, 115, 116, 97, 116, 117, 115, 32>>  \* "formatter exited with status "
LitColonSp == <<58, 32>>  \* ": "

(* Literals of the standard library's Display implementations that the     *)
(* source's format! calls go through.                                      *)
LitSignal == <<115, 105, 103, 110, 97, 108, 58, 32>>  \* "signal: "
LitCoreDumped == <<32, 40, 99, 111, 114, 101, 32, 100, 117, 109, 112, 101, 100, 41>>  \* " (core dumped)"
(* The names the standard library prints after a signal's number (Linux,   *)
(* x86-64), by signal number.                                              *)
SignalNames ==
    <<
      <<32, 40, 83, 73, 71, 72, 85, 80, 41>>,  \* 1: " (SIGHUP)"
      <<32, 40, 83, 73, 71, 73, 78, 84, 41>>,  \* 2: " (SIGINT)"
      <<32, 40, 83, 73, 71, 81, 85, 73, 84, 41>>,  \* 3: " (SIGQUIT)"
      <<32, 40, 83, 73, 71, 73, 76, 76, 41>>,  \* 4: " (SIGILL)"
      <<32, 40, 83, 73, 71, 84, 82, 65, 80, 41>>,  \* 5: " (SIGTRAP)"
      <<32, 40, 83, 73, 71, 65, 66, 82, 84, 41>>,  \* 6: " (SIGABRT)"
      <<32, 40, 83, 73, 71, 66, 85, 83, 41>>,  \* 7: " (SIGBUS)"
      <<32, 40, 83, 73, 71, 70, 80, 69, 41>>,  \* 8: " (SIGFPE)"
      <<32, 40, 83, 73, 71, 75, 73, 76, 76, 41>>,  \* 9: " (SIGKILL)"
      <<32, 40, 83, 73, 71, 85, 83, 82, 49, 41>>,  \* 10: " (SIGUSR1)"
      <<32, 40, 83, 73, 71, 83, 69, 71, 86, 41>>,  \* 11: " (SIGSEGV)"
      <<32, 40, 83, 73, 71, 85, 83, 82, 50, 41>>,  \* 12: " (SIGUSR2)"
      <<32, 40, 83, 73, 71, 80, 73, 80, 69, 41>>,  \* 13: " (SIGPIPE)"
      <<32, 40, 83, 73, 71, 65, 76, 82, 77, 41>>,  \* 14: " (SIGALRM)"
      <<32, 40, 83, 73, 71, 84, 69, 82, 77, 41>>,  \* 15: " (SIGTERM)"
      <<32, 40, 83, 73, 71, 83, 84, 75, 70, 76, 84, 41>>,  \* 16: " (SIGSTKFLT)"
      <<32, 40, 83, 73, 71, 67, 72, 76, 68, 41>>,  \* 17: " (SIGCHLD)"
      <<32, 40, 83, 73, 71, 67, 79, 78, 84, 41>>,  \* 18: " (SIGCONT)"
      <<32, 40, 83, 73, 71, 83, 84, 79, 80, 41>>,  \* 19: " (SIGSTOP)"
      <<32, 40, 83, 73, 71, 84, 83, 84, 80, 41>>,  \* 20: " (SIGTSTP)"
      <<32, 40, 83, 73, 71, 84, 84, 73, 78, 41>>,  \* 21: " (SIGTTIN)"
      <<32, 40, 83, 73, 71, 84, 84, 79, 85, 41>>,  \* 22: " (SIGTTOU)"
      <<32, 40, 83, 73, 71, 85, 82, 71, 41>>,  \* 23: " (SIGURG)"
      <<32, 40, 83, 73, 71, 88, 67, 80, 85, 41>>,  \* 24: " (SIGXCPU)"
      <<32, 40, 83, 73, 71, 88, 70, 83, 90, 41>>,  \* 25: " (SIGXFSZ)"
      <<32, 40, 83, 73, 71, 86, 84, 65, 76, 82, 77, 41>>,  \* 26: " (SIGVTALRM)"
      <<32, 40, 83, 73, 71, 80, 82, 79, 70, 41>>,  \* 27: " (SIGPROF)"
      <<32, 40, 83, 73, 71, 87, 73, 78, 67, 72, 41>>,  \* 28: " (SIGWINCH)"
      <<32, 40, 83, 73, 71, 73, 79, 41>>,  \* 29: " (SIGIO)"
      <<32, 40, 83, 73, 71, 80, 87, 82, 41>>,  \* 30: " (SIGPWR)"
      <<32, 40, 83, 73, 71, 83, 89, 83, 41>>  \* 31: " (SIGSYS)"
    >>
LitExitStatus == <<101, 120, 105, 116, 32, 115, 116, 97, 116, 117, 115, 58, 32>>  \* "exit status: "
LitInvalidSeq == <<105, 110, 118, 97, 108, 105, 100, 32, 117, 116, 102, 45, 56, 32, 115, 101, 113, 117, 101, 110, 99, 101, 32, 111, 102, 32>>  \* "invalid utf-8 sequence of "
LitBytesFrom == <<32, 98, 121, 116, 101, 115, 32, 102, 114, 111, 109, 32, 105, 110, 100, 101, 120, 32>>  \* " bytes from index "
LitIncomplete == <<105, 110, 99, 111, 109, 112, 108, 101, 116, 101, 32, 117, 116, 102, 45, 56, 32, 98, 121, 116, 101, 32, 115, 101, 113, 117, 101, 110, 99, 101, 32, 102, 114, 111, 109, 32, 105, 110, 100, 101, 120, 32>>  \* "incomplete utf-8 byte sequence from index "
ReplacementChar == <<239, 191, 189>>  \* U+FFFD, the replacement character, in UTF-8

---------------------------------------------------------------------------
(* Sample inputs. *)

PathAMove == <<97, 46, 109, 111, 118, 101>>  \* "a.move"
PathSources == <<115, 111, 117, 114, 99, 101, 115>>  \* "sources"
PathNotUtf8 == <<115, 255, 99>>  \* a Unix path that is not UTF-8: "s", 0xFF, "c"
PathToml == <<109, 111, 118, 101, 102, 109, 116, 46, 116, 111, 109, 108>>  \* "movefmt.toml"
PathExe == <<47, 117, 115, 114, 47, 98, 105, 110, 47, 109, 111, 118, 101, 102, 109, 116>>  \* "/usr/bin/movefmt"
KeyMaxWidth == <<109, 97, 120, 95, 119, 105, 100, 116, 104>>  \* "max_width"
KeyIndent == <<105, 110, 100, 101, 110, 116, 95, 115, 105, 122, 101>>  \* "indent_size"
KeyMaxWidthX == <<109, 97, 120, 95, 119, 105, 100, 116, 104, 95, 120>>  \* "max_width_x"
Val100 == <<49, 48, 48>>  \* "100"
Val4 == <<52>>  \* "4"
OutReformatted == <<114, 101, 102, 111, 114, 109, 97, 116, 116, 101, 100, 32, 50, 32, 102, 105, 108, 101, 115>>  \* "reformatted 2 files"
ErrParse == <<112, 97, 114, 115, 101, 32, 101, 114, 114, 111, 114, 32, 97, 116, 32, 108, 105, 110, 101, 32, 52>>  \* "parse error at line 4"
OutEAcute == <<195, 169>>  \* U+00E9 in UTF-8 (valid, two bytes)
OutTruncated == <<111, 107, 226, 130>>  \* "ok" and the first two bytes of a three-byte character
OutBadByte == <<97, 255, 98>>  \* "a", 0xFF, "b"
OutSurrogate == <<237, 160, 128>>  \* an encoded surrogate, U+D800: not UTF-8

(* Bounds of the model. *)
MaxConfig == 2   \* largest number of entries of the config map
MaxExit == 2     \* largest exit code of the child

---------------------------------------------------------------------------
(* Option<T>: None, or Some(v). *)
None == [some |-> FALSE, val |-> <<>>]
Some(v) == [some |-> TRUE, val |-> v]

(* EmitMode (lines 19-25). *)
EmitMode == {"Overwrite", "NewFile", "StdOut", "Diff"}

(* BTreeMap<String, String> values of at most n entries: functions from a *)
(* set of keys to values.                                                  *)
ConfigKeys == {KeyMaxWidth, KeyIndent, KeyMaxWidthX}
ConfigValues == {Val100, Val4}
ConfigMaps(n) ==
    UNION {[S -> ConfigValues] : S \in {T \in SUBSET ConfigKeys : Cardinality(T) <= n}}

(* FmtCommand (lines 33-66): the values the struct's type admits. *)
FmtCommands(configs) ==
    [emit_mode   : EmitMode,
     file_path   : {None, Some(PathAMove)},
     dir_path    : {None, Some(PathSources), Some(PathNotUtf8)},
     config_path : {None, Some(PathToml)},
     config      : configs,
     verbose     : BOOLEAN,
     quiet       : BOOLEAN]

---------------------------------------------------------------------------
(* UTF-8, as String::from_utf8 (line 125, line 139) and Path::display      *)
(* (lines 97, 112, 115) decide it.                                         *)

(* The length of the character a first byte announces; 0: no character     *)
(* starts with this byte.                                                  *)
Utf8CharWidth(b) ==
    IF b < 128 THEN 1
    ELSE IF b >= 194 /\ b <= 223 THEN 2
    ELSE IF b >= 224 /\ b <= 239 THEN 3
    ELSE IF b >= 240 /\ b <= 244 THEN 4
    ELSE 0

IsContinuation(b) == b >= 128 /\ b <= 191

(* The second byte a three-byte or four-byte character's first byte allows. *)
SecondOk(first, second) ==
    CASE first = 224 -> second >= 160 /\ second <= 191
      [] first >= 225 /\ first <= 236 -> IsContinuation(second)
      [] first = 237 -> second >= 128 /\ second <= 159
      [] first >= 238 /\ first <= 239 -> IsContinuation(second)
      [] first = 240 -> second >= 144 /\ second <= 191
      [] first >= 241 /\ first <= 243 -> IsContinuation(second)
      [] first = 244 -> second >= 128 /\ second <= 143
      [] OTHER -> FALSE

(* Validation of v from its i-th byte on.  ok: v is UTF-8.  Otherwise      *)
(* valid_up_to is the length of the longest valid prefix, and error_len    *)
(* the number of bytes of the invalid sequence after it, 0 when the input  *)
(* ends inside a character (Utf8Error::error_len() = None).                *)
RECURSIVE Utf8Validate(_, _)
Utf8Validate(v, i) ==
    IF i > Len(v) THEN [ok |-> TRUE, valid_up_to |-> Len(v), error_len |-> 0]
    ELSE LET first == v[i]
             w == Utf8CharWidth(first)
             Err(n) == [ok |-> FALSE, valid_up_to |-> i - 1, error_len |-> n]
             Has(k) == i + k <= Len(v)
         IN  CASE w = 1 -> Utf8Validate(v, i + 1)
               [] w = 2 ->
                    IF ~Has(1) THEN Err(0)
                    ELSE IF ~IsContinuation(v[i + 1]) THEN Err(1)
                    ELSE Utf8Validate(v, i + 2)
               [] w = 3 ->
                    IF ~Has(1) THEN Err(0)
                    ELSE IF ~SecondOk(first, v[i + 1]) THEN Err(1)
                    ELSE IF ~Has(2) THEN Err(0)
                    ELSE IF ~IsContinuation(v[i + 2]) THEN Err(2)
                    ELSE Utf8Validate(v, i + 3)
               [] w = 4 ->
                    IF ~Has(1) THEN Err(0)
                    ELSE IF ~SecondOk(first, v[i + 1]) THEN Err(1)
                    ELSE IF ~Has(2) THEN Err(0)
                    ELSE IF ~IsContinuation(v[i + 2]) THEN Err(2)
                    ELSE IF ~Has(3) THEN Err(0)
                    ELSE IF ~IsContinuation(v[i + 3]) THEN Err(3)
                    ELSE Utf8Validate(v, i + 4)
               [] OTHER -> Err(1)

(* String::from_utf8(bytes): Ok(the same bytes, as a String) or            *)
(* Err(FromUtf8Error).                                                     *)
FromUtf8(bytes) ==
    LET r == Utf8Validate(bytes, 1)
    IN  IF r.ok THEN [ok |-> TRUE, string |-> bytes, valid_up_to |-> r.valid_up_to, error_len |-> 0]
        ELSE [ok |-> FALSE, string |-> <<>>, valid_up_to |-> r.valid_up_to, error_len |-> r.error_len]

(* A number in decimal ({} of an integer). *)
RECURSIVE Decimal(_)
Decimal(n) == IF n < 10 THEN <<48 + n>> ELSE Decimal(n \div 10) \o <<48 + (n % 10)>>

(* {} of a FromUtf8Error (line 132). *)
Utf8ErrorDisplay(e) ==
    IF e.error_len > 0
    THEN LitInvalidSeq \o Decimal(e.error_len) \o LitBytesFrom \o Decimal(e.valid_up_to)
    ELSE LitIncomplete \o Decimal(e.valid_up_to)

(* path.display() (lines 97, 112, 115): the path's bytes, each invalid     *)
(* sequence replaced by U+FFFD.                                            *)
RECURSIVE PathDisplay(_)
PathDisplay(p) ==
    LET r == Utf8Validate(p, 1)
    IN  IF r.ok THEN p
        ELSE SubSeq(p, 1, r.valid_up_to) \o ReplacementChar \o
             (IF r.error_len = 0 THEN <<>>
              ELSE PathDisplay(SubSeq(p, r.valid_up_to + r.error_len + 1, Len(p))))

(* ExitStatus (Unix): the child exited with a code, or a signal ended it,   *)
(* with or without a core dump.                                            *)
Exited(code) == [exited |-> TRUE, n |-> code, core |-> FALSE]
Signaled(signal, core) == [exited |-> FALSE, n |-> signal, core |-> core]
SigAbrt == 6
SigKill == 9
SigTerm == 15
ExitStatuses ==
    {Exited(code) : code \in 0..MaxExit}
        \cup {Signaled(SigKill, FALSE), Signaled(SigTerm, FALSE), Signaled(SigAbrt, TRUE)}

(* The name printed after a signal's number: none for a number without one. *)
SignalString(signal) ==
    IF signal \in 1..Len(SignalNames) THEN SignalNames[signal] ELSE <<>>

(* out.status.success() (line 123) *)
StatusSuccess(status) == status.exited /\ status.n = 0

(* {} of out.status (line 138) *)
StatusDisplay(status) ==
    IF status.exited THEN LitExitStatus \o Decimal(status.n)
    ELSE LitSignal \o Decimal(status.n) \o SignalString(status.n)
            \o (IF status.core THEN LitCoreDumped ELSE <<>>)

---------------------------------------------------------------------------
(* The clap argument group "input" (lines 28-32, 39, 44).                  *)

GroupRequired == TRUE    \* .required(true), line 29
GroupMultiple == FALSE   \* .multiple(false), line 30

(* The number of the group's arguments the command line gives. *)
InputGroupCount(r) ==
    (IF r.file_path.some THEN 1 ELSE 0) + (IF r.dir_path.some THEN 1 ELSE 0)

(* Mutation: the group declared .multiple(true). *)
InputGroupValid_AllowsMultiple(r) ==
    GroupRequired => InputGroupCount(r) >= 1

(* Whether clap accepts the command line as far as the group goes. *)
InputGroupValid(r) ==
    /\ GroupRequired => InputGroupCount(r) >= 1
    /\ ~GroupMultiple => InputGroupCount(r) <= 1

---------------------------------------------------------------------------
(* The argument vector (lines 89-120). *)

(* match self.emit_mode (lines 89-94). *)
EmitModeStr(m) ==
    CASE m = "Overwrite" -> LitOverwrite
      [] m = "NewFile" -> LitNewFile
      [] m = "StdOut" -> LitStdout
      [] m = "Diff" -> LitDiff

(* line 95 *)
EmitArgs(r) == <<LitEmit \o EmitModeStr(r.emit_mode)>>

(* lines 96-98 *)
ConfigPathArgs(r) ==
    IF r.config_path.some THEN <<LitConfigPath \o PathDisplay(r.config_path.val)>> ELSE <<>>

(* Mutation: quiet tested before verbose. *)
VerbosityArgs_QuietFirst(r) ==
    IF r.quiet THEN <<LitQ>> ELSE IF r.verbose THEN <<LitV>> ELSE <<>>

(* lines 99-103 *)
VerbosityArgs(r) ==
    IF r.verbose THEN <<LitV>> ELSE IF r.quiet THEN <<LitQ>> ELSE <<>>

(* String's order, the order of a BTreeMap<String, _>: bytewise lexicographic. *)
StrLess(a, b) ==
    \E i \in 1..(Len(b)) :
        /\ i <= Len(a) + 1
        /\ \A j \in 1..(i - 1) : a[j] = b[j]
        /\ i = Len(a) + 1 \/ a[i] < b[i]

(* Mutation: the map iterated from its greatest key down. *)
FirstKey_Greatest(keys) == CHOOSE k \in keys : \A j \in keys \ {k} : StrLess(j, k)

(* The first key of a non-empty key set in the map's iteration order. *)
FirstKey(keys) == CHOOSE k \in keys : \A j \in keys \ {k} : StrLess(k, j)

(* config_map_str_vec: one "key=value" per entry, in iteration order (lines 105-108). *)
RECURSIVE ConfigPairs(_, _)
ConfigPairs(config, keys) ==
    IF keys = {} THEN <<>>
    ELSE LET k == FirstKey(keys)
         IN  <<k \o LitEq \o config[k]>> \o ConfigPairs(config, keys \ {k})

(* slice.join(sep) (line 109). *)
RECURSIVE Join(_, _)
Join(strs, sep) ==
    IF Len(strs) = 0 THEN <<>>
    ELSE IF Len(strs) = 1 THEN strs[1]
    ELSE strs[1] \o sep \o Join(Tail(strs), sep)

(* lines 104-110 *)
ConfigArgs(r) ==
    IF DOMAIN r.config # {}
    THEN <<LitConfig \o Join(ConfigPairs(r.config, DOMAIN r.config), LitComma)>>
    ELSE <<>>

(* Mutation: "." for the default directory. *)
TargetArgs_DefaultDot(r) ==
    IF r.file_path.some THEN <<LitFilePath \o PathDisplay(r.file_path.val)>>
    ELSE LET dir_path == IF r.dir_path.some THEN PathDisplay(r.dir_path.val) ELSE <<46>>
         IN  <<LitDirPath \o dir_path>>

(* lines 111-120 *)
TargetArgs(r) ==
    IF r.file_path.some THEN <<LitFilePath \o PathDisplay(r.file_path.val)>>
    ELSE LET dir_path == IF r.dir_path.some THEN PathDisplay(r.dir_path.val) ELSE LitDotSlash
         IN  <<LitDirPath \o dir_path>>

(* Mutation: the --config= argument added before the verbosity flag. *)
BuildArgs_ConfigBeforeVerbosity(r) ==
    EmitArgs(r) \o ConfigPathArgs(r) \o ConfigArgs(r) \o VerbosityArgs(r) \o TargetArgs(r)

(* Every cmd.arg call of execute, in the order made (lines 95-120). *)
BuildArgs(r) ==
    EmitArgs(r) \o ConfigPathArgs(r) \o VerbosityArgs(r) \o ConfigArgs(r) \o TargetArgs(r)

---------------------------------------------------------------------------
(* CliTypedResult<String> (line 80): not yet returned, Ok(text), or        *)
(* Err(CliError).                                                          *)
Pending == [tag |-> "Pending", kind |-> "none", text |-> <<>>, os |-> "none"]
Ok(text) == [tag |-> "Ok", kind |-> "none", text |-> text, os |-> "none"]
(* CliError::IO(String, std::io::Error) (line 121) *)
ErrIO(text, e) == [tag |-> "Err", kind |-> "IO", text |-> text, os |-> e]
(* CliError::UnexpectedError(String) (lines 130, 136) *)
ErrUnexpected(text) == [tag |-> "Err", kind |-> "UnexpectedError", text |-> text, os |-> "none"]
(* clap's usage error: the command line is refused and nothing is executed. *)
ErrClap == [tag |-> "Err", kind |-> "ClapUsage", text |-> <<>>, os |-> "none"]

(* The errors get_movefmt_path can return (line 81). *)
ResolverErrors ==
    {[tag |-> "Err", kind |-> "ToolNotFound", text |-> t, os |-> "none"] : t \in {<<>>, PathExe}}

(* The results of get_movefmt_path() (line 81). *)
ResolverResults ==
    {[ok |-> TRUE, path |-> PathExe, err |-> Pending]}
        \cup {[ok |-> FALSE, path |-> <<>>, err |-> e] : e \in ResolverErrors}

(* The std::io::Error kinds with which creating the child can fail (line 122). *)
SpawnErrors == {"NotFound", "PermissionDenied"}

(* The std::io::Error kind with which waiting for the created child can    *)
(* fail (line 122): ECHILD, the child is no longer there to wait for (it   *)
(* was reaped already, as when the process ignores SIGCHLD).               *)
WaitErrors == {"Uncategorized"}

(* What the child can write to its stdout and to its stderr. *)
ChildOutputs ==
    {<<>>, OutReformatted, ErrParse, OutEAcute, OutTruncated, OutBadByte, OutSurrogate}

NoExe == [ok |-> FALSE, path |-> <<>>, err |-> Pending]
NoCmd == [program |-> <<>>, args |-> <<>>]
NoChild == [ended |-> FALSE, discarded |-> FALSE, status |-> Exited(0),
            stdout |-> <<>>, stderr |-> <<>>]
NoOut == [returned |-> FALSE, status |-> Exited(0), stdout |-> <<>>, stderr |-> <<>>]

(* Result<String, _>::unwrap_or_default() (line 139). *)
UnwrapOrDefault(r) == IF r.ok THEN r.string ELSE <<>>

(* Mutation: a stderr that is not UTF-8 reported as a decoding failure. *)
InterpretOutput_StrictStderr(o) ==
    IF StatusSuccess(o.status)
    THEN LET decoded == FromUtf8(o.stdout)
         IN  IF decoded.ok
             THEN [result |-> Ok(LitOk), eprint |-> <<decoded.string>>]
             ELSE [result |-> ErrUnexpected(LitNotUtf8 \o Utf8ErrorDisplay(decoded)),
                   eprint |-> <<>>]
    ELSE LET decoded == FromUtf8(o.stderr)
         IN  IF decoded.ok
             THEN [result |-> ErrUnexpected(LitExited \o StatusDisplay(o.status) \o LitColonSp
                                                \o decoded.string),
                   eprint |-> <<>>]
             ELSE [result |-> ErrUnexpected(LitNotUtf8 \o Utf8ErrorDisplay(decoded)),
                   eprint |-> <<>>]

(* What execute makes of the child's Output (lines 123-141): the value it  *)
(* returns and what it writes with eprint!.                                *)
InterpretOutput(o) ==
    IF StatusSuccess(o.status)
    THEN LET decoded == FromUtf8(o.stdout)
         IN  IF decoded.ok
             THEN [result |-> Ok(LitOk), eprint |-> <<decoded.string>>]
             ELSE [result |-> ErrUnexpected(LitNotUtf8 \o Utf8ErrorDisplay(decoded)),
                   eprint |-> <<>>]
    ELSE [result |-> ErrUnexpected(LitExited \o StatusDisplay(o.status) \o LitColonSp
                                       \o UnwrapOrDefault(FromUtf8(o.stderr))),
          eprint |-> <<>>]

---------------------------------------------------------------------------
(* The config maps of the command lines the whole program is run on. *)
CliConfigs == {m \in ConfigMaps(1) : \A k \in DOMAIN m : k = KeyMaxWidth /\ m[k] = Val100}

Start(commands, at) ==
    /\ req \in commands
    /\ pc = at
    /\ exe = NoExe
    /\ cmd = NoCmd
    /\ spawned = 0
    /\ reaped = 0
    /\ child = NoChild
    /\ out = NoOut
    /\ result = Pending
    /\ diag = <<>>

(* The program from the parsed command line on. *)
Init == Start(FmtCommands(CliConfigs), "parse")

(* FmtCommand::execute entered with any FmtCommand value. *)
InitExecute == Start(FmtCommands(ConfigMaps(MaxConfig)), "resolve")

(* clap's check of the group "input" (lines 28-32); an accepted command    *)
(* line goes on to Fmt::execute, which calls FmtCommand::execute           *)
(* (lines 74-76).                                                          *)
Parse ==
    /\ pc = "parse"
    /\ IF InputGroupValid(req)
       THEN pc' = "resolve" /\ UNCHANGED result
       ELSE pc' = "rejected" /\ result' = ErrClap
    /\ UNCHANGED <<req, exe, cmd, spawned, reaped, child, out, diag>>

(* Mutation: a failed resolution not returned, the Command made from an    *)
(* empty path.                                                             *)
Resolve_IgnoresFailure ==
    /\ pc = "resolve"
    /\ \E r \in ResolverResults :
        /\ exe' = r
        /\ cmd' = [program |-> r.path, args |-> <<>>]
        /\ pc' = "build"
        /\ UNCHANGED result
    /\ UNCHANGED <<req, spawned, reaped, child, out, diag>>

(* let exe = get_movefmt_path()?; let mut cmd = Command::new(exe.as_path()) *)
(* (lines 81-82).                                                          *)
Resolve ==
    /\ pc = "resolve"
    /\ \E r \in ResolverResults :
        /\ exe' = r
        /\ IF r.ok
           THEN /\ cmd' = [program |-> r.path, args |-> <<>>]
                /\ pc' = "build"
                /\ UNCHANGED result
           ELSE /\ result' = r.err
                /\ pc' = "done"
                /\ UNCHANGED cmd
    /\ UNCHANGED <<req, spawned, reaped, child, out, diag>>

(* The cmd.arg calls (lines 83-120). *)
BuildArguments ==
    /\ pc = "build"
    /\ cmd' = [cmd EXCEPT !.args = BuildArgs(req)]
    /\ pc' = "spawn"
    /\ UNCHANGED <<req, exe, spawned, reaped, child, out, result, diag>>

(* cmd.output().map_err(to_cli_error)? (lines 121-122), first half: the    *)
(* child is created, or creating it fails and execute returns              *)
(* CliError::IO(exe.display().to_string(), e).                             *)
Spawn ==
    /\ pc = "spawn"
    /\ \/ /\ spawned' = spawned + 1
          /\ pc' = "wait"
          /\ UNCHANGED result
       \/ \E e \in SpawnErrors :
          /\ result' = ErrIO(PathDisplay(exe.path), e)
          /\ pc' = "done"
          /\ UNCHANGED spawned
    /\ UNCHANGED <<req, exe, cmd, reaped, child, out, diag>>

(* Mutation: the child's pipes read to their end without waiting for the  *)
(* child.                                                                  *)
Wait_NoReap ==
    /\ pc = "wait"
    /\ \E s \in ExitStatuses, so \in ChildOutputs, se \in ChildOutputs :
        /\ child' = [ended |-> TRUE, discarded |-> FALSE, status |-> s,
                     stdout |-> so, stderr |-> se]
        /\ out' = [returned |-> TRUE, status |-> s, stdout |-> so, stderr |-> se]
    /\ pc' = "interpret"
    /\ UNCHANGED <<req, exe, cmd, spawned, reaped, result, diag>>

(* cmd.output().map_err(to_cli_error)? (lines 121-122), second half: the   *)
(* call reads what the child writes and blocks until the child has ended.  *)
(* Then either the wait collects the exit status and output() returns the  *)
(* Output; or the system has discarded the ended child's status (the       *)
(* process ignores SIGCHLD), the wait fails with ECHILD and collects       *)
(* nothing, and execute returns                                            *)
(* CliError::IO(exe.display().to_string(), e).                             *)
Wait ==
    /\ pc = "wait"
    /\ \E s \in ExitStatuses, so \in ChildOutputs, se \in ChildOutputs :
        \/ /\ child' = [ended |-> TRUE, discarded |-> FALSE, status |-> s,
                        stdout |-> so, stderr |-> se]
           /\ out' = [returned |-> TRUE, status |-> s, stdout |-> so, stderr |-> se]
           /\ reaped' = reaped + 1
           /\ pc' = "interpret"
           /\ UNCHANGED result
        \/ \E e \in WaitErrors :
           /\ child' = [ended |-> TRUE, discarded |-> TRUE, status |-> s,
                        stdout |-> so, stderr |-> se]
           /\ result' = ErrIO(PathDisplay(exe.path), e)
           /\ pc' = "done"
           /\ UNCHANGED <<out, reaped>>
    /\ UNCHANGED <<req, exe, cmd, spawned, diag>>

(* if out.status.success() { ... } else { ... } (lines 123-141).  Either    *)
(* execute writes what it has to write and returns; or a write of eprint!  *)
(* (line 127) fails (the process's stderr is full, or a pipe without       *)
(* reader) and eprint! panics: execute returns no value.  eprint! writes   *)
(* the text in a loop of writes, so when it panics any part of the text    *)
(* short of the whole can be on the stream already.  Writing the empty     *)
(* text makes no write and cannot fail.                                    *)
Interpret ==
    /\ pc = "interpret"
    /\ LET o == InterpretOutput(out)
       IN  \/ /\ result' = o.result
              /\ diag' = diag \o o.eprint
              /\ pc' = "done"
           \/ \E i \in 1..Len(o.eprint) : \E n \in 0..(Len(o.eprint[i]) - 1) :
              /\ diag' = diag \o <<SubSeq(o.eprint[i], 1, n)>>
              /\ pc' = "panicked"
              /\ UNCHANGED result
    /\ UNCHANGED <<req, exe, cmd, spawned, reaped, child, out>>

Next == Parse \/ Resolve \/ BuildArguments \/ Spawn \/ Wait \/ Interpret

Spec == Init /\ [][Next]_vars

(* FmtCommand::execute up to the complete argument vector. *)
NextBuild == Resolve \/ BuildArguments

SpecBuild == InitExecute /\ [][NextBuild]_vars

---------------------------------------------------------------------------
(* Properties.                                                             *)

HasPrefix(s, p) == Len(s) >= Len(p) /\ SubSeq(s, 1, Len(p)) = p

(* The place of an argument in the external tool's grammar:                *)
(* 1 --emit=, 2 --config-path=, 3 -v or -q, 4 --config=, 5 the target.     *)
ArgKind(a) ==
    CASE HasPrefix(a, LitEmit) -> 1
      [] HasPrefix(a, LitConfigPath) -> 2
      [] a = LitV \/ a = LitQ -> 3
      [] HasPrefix(a, LitConfig) -> 4
      [] HasPrefix(a, LitFilePath) \/ HasPrefix(a, LitDirPath) -> 5
      [] OTHER -> 0

ArgsOfKind(args, k) == {i \in 1..Len(args) : ArgKind(args[i]) = k}

(* The argument vector is complete: every cmd.arg call has been made. *)
ArgsBuilt ==
    pc \in {"spawn", "wait", "interpret", "panicked"} \/ (pc = "done" /\ cmd.args # <<>>)

ArgEmitDiff == <<45, 45, 101, 109, 105, 116, 61, 100, 105, 102, 102>>  \* "--emit=diff"
ArgConfigMaxWidth == <<45, 45, 99, 111, 110, 102, 105, 103, 61, 109, 97, 120, 95, 119, 105, 100, 116, 104, 61, 49, 48, 48>>  \* "--config=max_width=100"
ArgConfigTwo == <<45, 45, 99, 111, 110, 102, 105, 103, 61, 105, 110, 100, 101, 110, 116, 95, 115, 105, 122, 101, 61, 52, 44, 109, 97, 120, 95, 119, 105, 100, 116, 104, 61, 49, 48, 48>>  \* "--config=indent_size=4,max_width=100"
ArgFileAMove == <<45, 45, 102, 105, 108, 101, 45, 112, 97, 116, 104, 61, 97, 46, 109, 111, 118, 101>>  \* "--file-path=a.move"
ArgDirDefault == <<45, 45, 100, 105, 114, 45, 112, 97, 116, 104, 61, 46, 47>>  \* "--dir-path=./"
MsgExit1Parse == <<102, 111, 114, 109, 97, 116, 116, 101, 114, 32, 101, 120, 105, 116, 101, 100, 32, 119, 105, 116, 104, 32, 115, 116, 97, 116, 117, 115, 32, 101, 120, 105, 116, 32, 115, 116, 97, 116, 117, 115, 58, 32, 49, 58, 32, 112, 97, 114, 115, 101, 32, 101, 114, 114, 111, 114, 32, 97, 116, 32, 108, 105, 110, 101, 32, 52>>  \* "formatter exited with status exit status: 1: parse error at line 4"

(* The request of the spec's scenario: {Diff, file_path a.move, overrides {max_width: 100}}. *)
ScenarioRequest ==
    /\ req.emit_mode = "Diff"
    /\ req.file_path = Some(PathAMove)
    /\ ~req.dir_path.some
    /\ ~req.config_path.some
    /\ DOMAIN req.config = {KeyMaxWidth}
    /\ req.config[KeyMaxWidth] = Val100
    /\ ~req.verbose
    /\ ~req.quiet

(* The encoding of the emit mode that the external tool expects. *)
EmitEncoding ==
    [m \in EmitMode |->
        CASE m = "Overwrite" -> <<111, 118, 101, 114, 119, 114, 105, 116, 101>>
          [] m = "NewFile" -> <<110, 101, 119, 95, 102, 105, 108, 101>>
          [] m = "StdOut" -> <<115, 116, 100, 111, 117, 116>>
          [] m = "Diff" -> <<100, 105, 102, 102>>]

(* C1: once built, the argument vector is one --emit=<mode> first, with    *)
(* the mode's encoding, then --config-path= iff config_path is present,    *)
(* then at most one of -v/-q, then --config= iff the config map is not     *)
(* empty, then exactly one target argument last: every argument has a      *)
(* place in the grammar and the places strictly increase along the vector. *)
(* The scenario request gives [--emit=diff, --config=max_width=100,        *)
(* --file-path=a.move].                                                    *)
C1_ArgumentOrder ==
    ArgsBuilt =>
        LET a == cmd.args
        IN  /\ Len(a) >= 2
            /\ \A i \in 1..Len(a) : ArgKind(a[i]) \in 1..5
            /\ \A i \in 1..(Len(a) - 1) : ArgKind(a[i]) < ArgKind(a[i + 1])
            /\ a[1] = <<45, 45, 101, 109, 105, 116, 61>> \o EmitEncoding[req.emit_mode]
            /\ ArgKind(a[Len(a)]) = 5
            /\ (ArgsOfKind(a, 2) # {}) <=> req.config_path.some
            /\ (ArgsOfKind(a, 4) # {}) <=> (DOMAIN req.config # {})
            /\ ScenarioRequest => a = <<ArgEmitDiff, ArgConfigMaxWidth, ArgFileAMove>>

C1_Witness ==
    /\ pc = "spawn"
    /\ ScenarioRequest
    /\ cmd.args = <<ArgEmitDiff, ArgConfigMaxWidth, ArgFileAMove>>

(* C2: with file_path set no --dir-path argument is built, with dir_path   *)
(* set no --file-path argument is built, and a command line that sets both *)
(* never gets past the parser: no argument vector, no child.               *)
C2_TargetExclusive ==
    /\ (ArgsBuilt /\ req.file_path.some) =>
            \A i \in 1..Len(cmd.args) : ~HasPrefix(cmd.args[i], LitDirPath)
    /\ (ArgsBuilt /\ req.dir_path.some) =>
            \A i \in 1..Len(cmd.args) : ~HasPrefix(cmd.args[i], LitFilePath)
    /\ (req.file_path.some /\ req.dir_path.some) =>
            /\ pc \in {"parse", "rejected"}
            /\ cmd = NoCmd
            /\ spawned = 0

C2_Witness ==
    /\ pc = "rejected"
    /\ req.file_path.some
    /\ req.dir_path.some
    /\ result = ErrClap
    /\ spawned = 0

(* C3: the parser refuses a command line exactly when it sets both         *)
(* --file-path and --dir-path; one that sets neither is accepted.          *)
C3_OnlyBothRejected ==
    pc # "parse" => (pc = "rejected" <=> (req.file_path.some /\ req.dir_path.some))

(* C4: with file_path and dir_path both unset, the target argument is      *)
(* exactly --dir-path=./, it is the only target argument, and it is last.  *)
C4_DefaultTarget ==
    (ArgsBuilt /\ ~req.file_path.some /\ ~req.dir_path.some) =>
        /\ cmd.args[Len(cmd.args)] = ArgDirDefault
        /\ \A i \in 1..Len(cmd.args) :
            /\ ~HasPrefix(cmd.args[i], LitFilePath)
            /\ HasPrefix(cmd.args[i], LitDirPath) => i = Len(cmd.args)

C4_Witness ==
    /\ pc = "spawn"
    /\ ~req.file_path.some
    /\ ~req.dir_path.some
    /\ cmd.args[Len(cmd.args)] = ArgDirDefault

(* The child outputs of the model that are UTF-8 text. *)
TextOutputs == {<<>>, OutReformatted, ErrParse, OutEAcute}

(* The call is over: execute has returned, or it has panicked. *)
Finished == pc \in {"done", "panicked"}

(* The child was created and has ended, and the call is over. *)
ChildDone == Finished /\ spawned = 1 /\ child.ended

(* cmd.output() returned the child's Output to execute. *)
OutputReturned == out.returned /\ out.status = child.status
                    /\ out.stdout = child.stdout /\ out.stderr = child.stderr

(* C5: whenever the child was created and exits with code 0 and a stdout  *)
(* that is UTF-8 text, and cmd.output() has returned its Output, execute   *)
(* returns Ok("ok"), never the text, and has written that text to the      *)
(* diagnostic stream exactly once, whatever the child's stderr was.  (The  *)
(* claim is read in its favour: the calls in which the wait itself failed  *)
(* are left out.)                                                          *)
C5_SuccessIsOk ==
    (ChildDone /\ OutputReturned /\ child.status = Exited(0)
        /\ child.stdout \in TextOutputs) =>
        /\ pc = "done"
        /\ result = Ok(<<111, 107>>)
        /\ diag = <<child.stdout>>

(* The text of the error for a child that ended with a status other than   *)
(* exit code 0: "formatter exited with status <status>: <stderr text>".    *)
ToolErrorText ==
    LitExited \o StatusDisplay(child.status) \o <<58, 32>>
        \o (IF child.stderr \in TextOutputs THEN child.stderr ELSE <<>>)

(* C6, as claimed: whenever the child was created and ends with a status   *)
(* other than exit code 0, execute returns the error "formatter exited     *)
(* with status <status>: <stderr text>".                                   *)
C6_Original ==
    (ChildDone /\ child.status # Exited(0)) =>
        /\ result.kind = "UnexpectedError"
        /\ result.text = ToolErrorText

(* C6, amended: when the child ends with any status but exit code 0 and    *)
(* cmd.output() returns its Output, execute returns                        *)
(* CliError::UnexpectedError("formatter exited with status <status>:       *)
(* <stderr text>"), with the empty string for a stderr that is not UTF-8,  *)
(* and writes nothing to the diagnostic stream; the child's stdout appears *)
(* nowhere.  Exit status 1 with stderr "parse error at line 4" gives       *)
(* "formatter exited with status exit status: 1: parse error at line 4".   *)
C6_FailureIsToolError ==
    (ChildDone /\ OutputReturned /\ child.status # Exited(0)) =>
        /\ pc = "done"
        /\ result.tag = "Err"
        /\ result.kind = "UnexpectedError"
        /\ result.text = ToolErrorText
        /\ ~HasPrefix(result.text, LitNotUtf8)
        /\ diag = <<>>
        /\ (child.status = Exited(1) /\ child.stderr = ErrParse) => result.text = MsgExit1Parse

C6_Witness ==
    /\ pc = "done"
    /\ ChildDone
    /\ OutputReturned
    /\ out.status = Exited(1)
    /\ out.stdout = OutReformatted
    /\ out.stderr = OutBadByte
    /\ result.kind = "UnexpectedError"
    /\ HasPrefix(result.text, LitExited)
    /\ diag = <<>>

(* C7: when get_movefmt_path fails, execute returns the resolver's error   *)
(* itself, no Command is made and no child is created; a Command, and a    *)
(* child, exist only after a successful resolution.                        *)
C7_ResolveGatesSpawn ==
    /\ exe.err.tag = "Err" =>
            /\ pc = "done"
            /\ result = exe.err
            /\ cmd = NoCmd
            /\ spawned = 0
    /\ (spawned > 0 \/ cmd # NoCmd \/ pc \in {"build", "spawn", "wait", "interpret"}) => exe.ok

C7_Witness ==
    /\ pc = "done"
    /\ ~exe.ok
    /\ exe.err.kind = "ToolNotFound"
    /\ result = exe.err
    /\ spawned = 0

(* The places of the --config= arguments in the argument vector. *)
ConfigArgIndexes == {i \in 1..Len(cmd.args) : HasPrefix(cmd.args[i], LitConfig)}

(* The keys of the map, as the sequence in ascending order. *)
AscendingKeys(config) ==
    CHOOSE s \in [1..Cardinality(DOMAIN config) -> DOMAIN config] :
        \A i \in 1..Len(s), j \in 1..Len(s) : i < j => StrLess(s[i], s[j])

(* The key=value pairs of the keys s[i], s[i+1], ..., a comma between two. *)
RECURSIVE PairsFrom(_, _, _)
PairsFrom(config, s, i) ==
    IF i > Len(s) THEN <<>>
    ELSE (IF i > 1 THEN <<44>> ELSE <<>>) \o s[i] \o <<61>> \o config[s[i]]
            \o PairsFrom(config, s, i + 1)

(* C8: a non-empty config map gives exactly one --config= argument, whose  *)
(* value is the map's key=value pairs, each once, in the map's iteration   *)
(* order (ascending keys), joined by commas; an empty map gives no         *)
(* --config= argument.                                                     *)
C8_ConfigArgument ==
    ArgsBuilt =>
        IF DOMAIN req.config = {}
        THEN ConfigArgIndexes = {}
        ELSE /\ Cardinality(ConfigArgIndexes) = 1
             /\ \A i \in ConfigArgIndexes :
                    cmd.args[i] = LitConfig \o PairsFrom(req.config, AscendingKeys(req.config), 1)

C8_Witness ==
    /\ pc = "spawn"
    /\ DOMAIN req.config = {KeyMaxWidth, KeyIndent}
    /\ req.config[KeyMaxWidth] = Val100
    /\ req.config[KeyIndent] = Val4
    /\ \E i \in 1..Len(cmd.args) : cmd.args[i] = ArgConfigTwo

(* C9: -v is in the argument vector iff verbose, -q iff quiet and not      *)
(* verbose, and never both: with verbose and quiet both set only -v.       *)
C9_VerboseWins ==
    ArgsBuilt =>
        LET has(x) == \E i \in 1..Len(cmd.args) : cmd.args[i] = x
        IN  /\ has(LitV) <=> req.verbose
            /\ has(LitQ) <=> (req.quiet /\ ~req.verbose)
            /\ Cardinality({i \in 1..Len(cmd.args) : cmd.args[i] \in {LitV, LitQ}}) <= 1

C9_Witness ==
    /\ pc = "spawn"
    /\ req.verbose
    /\ req.quiet
    /\ \E i \in 1..Len(cmd.args) : cmd.args[i] = LitV
    /\ \A i \in 1..Len(cmd.args) : cmd.args[i] # LitQ

(* C10, as claimed: at most one child, and when execute has returned, the  *)
(* exit status of the child it created has been collected.                 *)
C10_Original ==
    /\ spawned <= 1
    /\ (pc = "done" /\ spawned = 1) => (child.ended /\ reaped = 1)

(* The wait for the child failed: the system had discarded the child's     *)
(* status, the call collected none, and execute returned CliError::IO      *)
(* with the executable's path.                                             *)
WaitFailed ==
    /\ pc = "done"
    /\ child.discarded
    /\ reaped = 0
    /\ ~out.returned
    /\ \E e \in WaitErrors : result = ErrIO(PathDisplay(exe.path), e)

(* At most one child.  When the call is over, a child that was created has *)
(* ended and is not left to be reaped: either the call's wait collected    *)
(* its exit status and execute has it, or the wait failed.  When execute   *)
(* has returned, the result is Ok or one error; a call that panicked has   *)
(* no result, and its child's status was collected.                        *)
C10_State ==
    /\ spawned <= 1
    /\ reaped <= spawned
    /\ (Finished /\ spawned = 1) =>
            /\ child.ended
            /\ \/ reaped = 1 /\ ~child.discarded /\ OutputReturned
               \/ WaitFailed
    /\ (Finished /\ spawned = 0) => (reaped = 0 /\ child = NoChild /\ out = NoOut)
    /\ pc = "done" => result.tag \in {"Ok", "Err"}
    /\ pc = "panicked" => (spawned = 1 /\ reaped = 1 /\ result.tag = "Pending")
    /\ result.tag # "Pending" => pc \in {"done", "rejected"}

(* Once the call is over, no step changes the result or creates or reaps   *)
(* a child.                                                                *)
C10_Step ==
    (result.tag # "Pending" \/ pc = "panicked") =>
        (result' = result /\ spawned' = spawned /\ reaped' = reaped)

(* C10, amended: a call creates at most one child; when execute returns    *)
(* or panics, a child it created has ended and either its exit status was  *)
(* collected by the call, which holds the child's Output, or the wait      *)
(* failed and execute returned CliError::IO without the status; once the   *)
(* call is over, neither the result nor the number of children created or  *)
(* reaped changes.                                                         *)
C10_OneChildReaped == []C10_State /\ [][C10_Step]_vars

C10_Witness ==
    /\ pc = "done"
    /\ ChildDone
    /\ reaped = 1
    /\ OutputReturned
    /\ out.status = Exited(0)
    /\ out.stdout = OutTruncated
    /\ result.kind = "UnexpectedError"
    /\ HasPrefix(result.text, LitNotUtf8)

=============================================================================
